---------------------------- MODULE Spec2Model ----------------------------
(***************************************************************************)
(* A model of two programs of the autofdo repository:                      *)
(*                                                                         *)
(*  - create_reg_prof.cc: main() walks every hot CFG with the recursive    *)
(*    function DFS, guarded by the file-static set visited_nodes;          *)
(*  - profile_creator.cc: ProfileCreator::CreateProfile and the functions  *)
(*    it calls (ReadPrefetchHints, ConvertPrefetchHints, ReadSample,       *)
(*    ComputeProfile, CheckAndAssignAddr2Line).                            *)
(*                                                                         *)
(* SpecDFS / FairSpecDFS are the behaviours of the first program, Spec the *)
(* behaviours of the second.                                               *)
(***************************************************************************)
EXTENDS Integers, Sequences, FiniteSets, TLC

VARIABLES
    \* ---- create_reg_prof.cc ----
    edges,          \* the CFG's intra-procedural edges, <<src, sink>>, grouped by src
    entry,          \* cfg->GetEntryNode()
    on_node,        \* TRUE iff DFS is given a non-null on_node callback
    on_edge,        \* TRUE iff DFS is given a non-null on_edge callback
    visited_nodes,  \* static std::set<CFGNode*> visited_nodes
    callStack,      \* the activation records of DFS, innermost last
    trace,          \* the callbacks invoked so far, in order
    descents,       \* number of DFS activations that got past the visited check
    dpc,            \* position of main(): "main", "dfs", "done"
    \* ---- profile_creator.cc ----
    profiler,       \* CreateProfile's argument profiler
    input,          \* the file named input_profile_name: Missing, or its content
    cpc,            \* position of CreateProfile
    addr2line,      \* "unset", or "set" once symbol_map->set_addr2line ran
    ignore_thresholds, \* symbol_map's flag
    hintsRead,      \* TRUE once ReadPrefetchHints was called
    hints,          \* PrefetchHints hints
    hi,             \* index of the hint the loop of ConvertPrefetchHints is at
    repeated_prefetches_indices, \* std::map<uint64_t, uint8_t>
    entries,        \* symbol map: the <<function, address>> entries ensured
    targets,        \* symbol map: indirect call targets, [func, site, target, count]
    ensureCalls,    \* the calls of EnsureEntryInFuncForSymbol, in order
    addCalls,       \* the calls of AddIndirectCallTarget, in order
    elided,         \* TRUE once ElideSuffixesAndMerge ran
    log,            \* the messages logged, in order
    written,        \* TRUE once writer->WriteToFile was called
    result          \* CreateProfile's return value: "none" until it returns

profVars == <<profiler, input, cpc, addr2line, ignore_thresholds, hintsRead, hints,
              hi, repeated_prefetches_indices, entries, targets, ensureCalls,
              addCalls, elided, log, written, result>>

dfsVars == <<edges, entry, on_node, on_edge, visited_nodes, callStack, trace,
             descents, dpc>>

(***************************************************************************)
(*                        create_reg_prof.cc                               *)
(***************************************************************************)

MaxNodes == 3
MaxEdges == 3

Nodes == 1..MaxNodes

\* Edge lists of at most MaxEdges edges; an edge's identity is its index, so
\* parallel edges between the same two nodes are distinct edges.
EdgeLists == UNION { [1..k -> Nodes \X Nodes] : k \in 0..MaxEdges }

\* A CFG stores each node's out-edges with the node; listing the edges grouped
\* by source keeps one representative per graph.
GroupedBySrc(es) == \A i \in 1..Len(es) - 1 : es[i][1] <= es[i + 1][1]

Src(e) == edges[e][1]
Sink(e) == edges[e][2]

RECURSIVE OutsFrom(_, _)
OutsFrom(n, i) ==
    IF i > Len(edges) THEN <<>>
    ELSE IF edges[i][1] = n THEN <<i>> \o OutsFrom(n, i + 1)
         ELSE OutsFrom(n, i + 1)

\* node->intra_outs(): the node's out-edges, in their stored order
intra_outs(n) == OutsFrom(n, 1)

Top == callStack[Len(callStack)]
Pop(s) == SubSeq(s, 1, Len(s) - 1)

\* line 65: if (visited_nodes.count(node)) return;
\* (AlwaysDescend: the function without this line)
AlwaysDescend(node) == FALSE
AlreadyVisited(node) == node \in visited_nodes

\* line 66: visited_nodes.insert(node);
\* (ForgetVisited: the function without this line)
ForgetVisited(node) == visited_nodes
MarkVisited(node) == visited_nodes \cup {node}

\* line 67: if (on_node) on_node(node);
NodeCallback(node) == IF on_node THEN <<<<"node", node>>>> ELSE <<>>

\* line 71: if (on_edge) on_edge(edge);
\* (EdgeCallbackIfSinkNew: the call moved behind the visited check of line 65)
EdgeCallbackIfSinkNew(e) ==
    IF on_edge /\ edges[e][2] \notin visited_nodes THEN <<<<"edge", e>>>> ELSE <<>>
EdgeCallback(e) == IF on_edge THEN <<<<"edge", e>>>> ELSE <<>>

\* The recursion of a correct traversal is never deeper than one activation
\* per node plus the activation that finds its node visited. DFSEdge does not
\* recurse beyond this depth, which keeps the state space finite; C2_Terminates
\* states that the traversal never gets to where this would stop it.
MaxDepth == MaxNodes + 1

\* lines 96-99: one iteration of main's loop up to the call DFS(entry, on_node).
\* The CFGs of the loop share no nodes, so one iteration stands for each.
MainPass ==
    /\ dpc = "main"
    /\ visited_nodes' = {}
    /\ callStack' = <<[node |-> entry, it |-> 0]>>
    /\ dpc' = "dfs"
    /\ UNCHANGED profVars
    /\ UNCHANGED <<edges, entry, on_node, on_edge, trace, descents>>

\* line 65, taken: the activation returns at once
DFSSkip ==
    /\ dpc = "dfs" /\ callStack # <<>>
    /\ Top.it = 0
    /\ AlreadyVisited(Top.node)
    /\ callStack' = Pop(callStack)
    /\ UNCHANGED profVars
    /\ UNCHANGED <<edges, entry, on_node, on_edge, visited_nodes, trace,
                   descents, dpc>>

\* lines 65-67: the node is new: insert it, call on_node, enter the edge loop
DFSVisit ==
    /\ dpc = "dfs" /\ callStack # <<>>
    /\ Top.it = 0
    /\ ~AlreadyVisited(Top.node)
    /\ visited_nodes' = MarkVisited(Top.node)
    /\ trace' = trace \o NodeCallback(Top.node)
    /\ descents' = descents + 1
    /\ callStack' = [callStack EXCEPT ![Len(callStack)].it = 1]
    /\ UNCHANGED profVars
    /\ UNCHANGED <<edges, entry, on_node, on_edge, dpc>>

\* lines 70-72: the next out-edge: call on_edge, then DFS(edge->sink())
DFSEdge ==
    /\ dpc = "dfs" /\ callStack # <<>>
    /\ Top.it >= 1
    /\ Top.it <= Len(intra_outs(Top.node))
    /\ Len(callStack) < MaxDepth
    /\ LET e == intra_outs(Top.node)[Top.it] IN
         /\ trace' = trace \o EdgeCallback(e)
         /\ callStack' = Append([callStack EXCEPT ![Len(callStack)].it = @ + 1],
                                [node |-> Sink(e), it |-> 0])
    /\ UNCHANGED profVars
    /\ UNCHANGED <<edges, entry, on_node, on_edge, visited_nodes, descents, dpc>>

\* lines 73-75: the edge loop is over: the activation returns
DFSReturn ==
    /\ dpc = "dfs" /\ callStack # <<>>
    /\ Top.it >= 1
    /\ Top.it > Len(intra_outs(Top.node))
    /\ callStack' = Pop(callStack)
    /\ UNCHANGED profVars
    /\ UNCHANGED <<edges, entry, on_node, on_edge, visited_nodes, trace,
                   descents, dpc>>

\* lines 102-106: DFS(entry) has returned to main
MainDone ==
    /\ dpc = "dfs" /\ callStack = <<>>
    /\ dpc' = "done"
    /\ UNCHANGED profVars
    /\ UNCHANGED <<edges, entry, on_node, on_edge, visited_nodes, callStack,
                   trace, descents>>

(***************************************************************************)
(*                         profile_creator.cc                              *)
(***************************************************************************)

\* ---- 64-bit integers, as four 16-bit limbs, least significant first ----

LimbBase == 2^16

U64(n) == <<n, 0, 0, 0>>

AddU64(a, b) ==
    LET s1 == a[1] + b[1]
        s2 == a[2] + b[2] + (s1 \div LimbBase)
        s3 == a[3] + b[3] + (s2 \div LimbBase)
        s4 == a[4] + b[4] + (s3 \div LimbBase)
    IN [val |-> <<s1 % LimbBase, s2 % LimbBase, s3 % LimbBase, s4 % LimbBase>>,
        carry |-> s4 \div LimbBase]

NotU64(a) == [i \in 1..4 |-> LimbBase - 1 - a[i]]

\* An int64_t is its sign and its magnitude: [neg, mag], mag <= 2^63 when neg
\* and mag < 2^63 otherwise.
I64(n) == IF n < 0 THEN [neg |-> TRUE, mag |-> U64(-n)]
                   ELSE [neg |-> FALSE, mag |-> U64(n)]
MinInt64 == [neg |-> TRUE, mag |-> <<0, 0, 0, 2^15>>]
MaxInt64 == [neg |-> FALSE, mag |-> <<LimbBase - 1, LimbBase - 1, LimbBase - 1, 2^15 - 1>>]

\* line 234: static_cast<uint64_t>(delta): the two's complement bit pattern
\* (CastKeepsMagnitude: a sign-corrected conversion)
CastKeepsMagnitude(delta) == delta.mag
StaticCastU64(delta) ==
    IF delta.neg THEN AddU64(NotU64(delta.mag), U64(1)).val ELSE delta.mag

\* ---- the binary: its functions and debug information ----

NotFound == <<>>

\* The addresses that occur in hint files and samples: two inside functions
\* with debug information (one of them in a compiler-generated variant of the
\* other's function), one inside a function without, and one outside every
\* function.
AddrFoo == 16^3                 \* 0x1000
AddrFooCold == 16^3 + 16^2      \* 0x1100
AddrBar == 2 * 16^3             \* 0x2000
AddrNowhere == 9 * 16^3         \* 0x9000
Addresses == {AddrFoo, AddrFooCold, AddrBar, AddrNowhere}

\* symbol_map->GetSymbolInfoByAddr(pc, &name, ...): the function's name as
\* <<base, suffix>>, or NotFound
GetSymbolInfoByAddr(pc) ==
    CASE pc = AddrFoo -> <<"foo", "">>
      [] pc = AddrFooCold -> <<"foo", ".cold">>
      [] pc = AddrBar -> <<"bar", "">>
      [] OTHER -> NotFound

\* addr2line->GetInlineStack(pc, &stack): outermost frame first
GetInlineStack(pc) ==
    CASE pc = AddrFoo -> <<<<"main", 10>>, <<"foo", 3>>>>
      [] pc = AddrFooCold -> <<<<"foo", 7>>>>
      [] OTHER -> <<>>

\* ---- the symbol map ----

\* symbol_map->EnsureEntryInFuncForSymbol(name, pc)
EnsureEntryInFuncForSymbol(es, name, pc) ==
    [ok |-> TRUE, entries |-> es \cup {<<name, pc>>}]

\* symbol_map->AddIndirectCallTarget(name, stack, target, count)
AddIndirectCallTarget(ts, name, stack, target, count) ==
    IF stack = <<>> THEN [ok |-> FALSE, targets |-> ts]
    ELSE LET site == stack[Len(stack)]
             old == { t \in ts : t.func = name /\ t.site = site /\ t.target = target }
             sum == IF old = {} THEN count
                    ELSE AddU64((CHOOSE t \in old : TRUE).count, count).val
         IN [ok |-> TRUE,
             targets |-> (ts \ old) \cup
                 {[func |-> name, site |-> site, target |-> target, count |-> sum]}]

RECURSIVE SumCounts(_)
SumCounts(S) ==
    IF S = {} THEN U64(0)
    ELSE LET t == CHOOSE x \in S : TRUE
         IN AddU64(t.count, SumCounts(S \ {t})).val

Canonical(name) == <<name[1], "">>

\* symbol_map->ElideSuffixesAndMerge()
ElideSuffixesAndMerge(es, ts) ==
    [entries |-> { <<Canonical(e[1]), e[2]>> : e \in es },
     targets |->
        { [func |-> Canonical(t.func), site |-> t.site, target |-> t.target,
           count |-> SumCounts({ u \in ts : /\ Canonical(u.func) = Canonical(t.func)
                                           /\ u.site = t.site
                                           /\ u.target = t.target })] : t \in ts }]

\* ---- the prefetch hint file ----

\* The file named input_profile_name: whether it can be opened, and its
\* content: hint lines for the prefetch profiler, samples for the others.
Missing == [state |-> "missing", lines |-> <<>>, samples |-> {}]
Corrupt == [state |-> "corrupt", lines |-> <<>>, samples |-> {}]
HintFile(ls) == [state |-> "ok", lines |-> ls, samples |-> {}]
SampleFile(S) == [state |-> "ok", lines |-> <<>>, samples |-> S]

HintTypes == {"NTA", "T1"}
Deltas == {I64(8), I64(-4)}
ExtremeDeltas == {MinInt64, MaxInt64, I64(-1), I64(0)}

\* A line is the sequence of its comma-separated fields; a field is a token
\* of one lexical class: a hexadecimal number, a signed decimal number, or a
\* word of at most 4 characters.
HexTok(a) == [lex |-> "hex", val |-> a]
DecTok(d) == [lex |-> "dec", val |-> d]
WordTok(w) == [lex |-> "word", val |-> w]

HintLine(a, d, t) == <<HexTok(a), DecTok(d), WordTok(t)>>

GoodLines == { HintLine(a, d, t) : a \in Addresses, d \in Deltas, t \in HintTypes }
\* a line without its type field, and a line that does not start with a number
BadLines == { <<HexTok(AddrFoo), DecTok(I64(8))>>, <<WordTok("NTA")>> }

MaxLines == 3

IndexWidth == 8

HintFiles ==
    { HintFile(ls) : ls \in UNION { [1..k -> GoodLines \cup BadLines] : k \in 0..MaxLines } }
LongFiles ==
    { HintFile([i \in 1..k |-> HintLine(AddrFoo, I64(8), "NTA")]) :
         k \in {2^IndexWidth, 2^IndexWidth + 1} }
ExtremeFiles ==
    { HintFile(<<HintLine(AddrFoo, d, "T1")>>) : d \in ExtremeDeltas }

\* line 67: fscanf(fp, "%llx,%lld,%s\n", ...): the number of fields converted
\* from the line, -1 at the end of the file
Fscanf(lines, pos) ==
    IF pos > Len(lines) THEN -1
    ELSE LET l == lines[pos] IN
         IF Len(l) < 1 \/ l[1].lex # "hex" THEN 0
         ELSE IF Len(l) < 2 \/ l[2].lex # "dec" THEN 1
         ELSE IF Len(l) < 3 \/ l[3].lex # "word" THEN 2
         ELSE 3

\* lines 66-77: the loop of ReadPrefetchHints. feof(fp) holds once a read has
\* consumed the last line and its newline, so the loop reads line after line
\* until one does not convert into three fields (or, in an empty file, until
\* the first read finds the end of the file), logs the error and breaks; the
\* hints pushed before that are kept.
ReadLoop(lines) ==
    LET stops == { i \in 1..(Len(lines) + 1) : Fscanf(lines, i) # 3 }
        stop == CHOOSE i \in stops : \A j \in stops : i <= j
        failed == stop <= Len(lines) \/ Len(lines) = 0
    IN [hints |-> [i \in 1..(stop - 1) |->
                      [address |-> lines[i][1].val,
                       delta |-> lines[i][2].val,
                       type |-> lines[i][3].val]],
        log |-> IF failed THEN <<"Error reading from">> ELSE <<>>]

\* lines 57-81
ReadPrefetchHints(file) ==
    IF file = Missing THEN [hints |-> <<>>, log |-> <<"Cannot open">>]
    ELSE ReadLoop(file.lines)

\* ---- ConvertPrefetchHints ----

\* line 219: uint8_t prefetch_index = repeated_prefetches_indices[pc]++;
PostIncrement(indices, pc) == [indices EXCEPT ![pc] = (@ + 1) % 2^IndexWidth]

\* lines 215-219: the index map after the lookup of pc: a hint whose address
\* is not found leaves the loop body before line 219
\* (NextIndicesAlways: line 219 moved before the lookup of line 215)
NextIndicesAlways(indices, pc, found) == PostIncrement(indices, pc)
NextIndices(indices, pc, found) ==
    IF found THEN PostIncrement(indices, pc) ELSE indices

\* std::to_string(prefetch_index): the decimal digits
Digit(d) == <<"0", "1", "2", "3", "4", "5", "6", "7", "8", "9">>[d + 1]
RECURSIVE to_string(_)
to_string(n) == IF n < 10 THEN <<Digit(n)>>
               ELSE Append(to_string(n \div 10), Digit(n % 10))

\* line 233: "__prefetch_" + hint.type + "_" + std::to_string(prefetch_index)
TargetName(type, index) == <<"__prefetch_", type, "_">> \o to_string(index)

\* lines 94-102: CheckAndAssignAddr2Line; created is FALSE for a null addr2line
\* (CheckIgnoresNull: the function without its return false)
CheckIgnoresNull(created) ==
    [ok |-> TRUE,
     addr2line |-> IF created THEN "set" ELSE addr2line,
     log |-> IF created THEN <<>> ELSE <<"Error reading binary">>]
CheckAndAssignAddr2Line(created) ==
    [ok |-> created,
     addr2line |-> IF created THEN "set" ELSE addr2line,
     log |-> IF created THEN <<>> ELSE <<"Error reading binary">>]

\* ---- the sample path ----

SampleFiles == { SampleFile(S) : S \in SUBSET Addresses }

\* sample_reader_->ReadAndSetTotalCount()
ReadAndSetTotalCount(file) == file.state = "ok"

\* lines 143-186: ReadSample
ReadSample(file, prof) ==
    IF prof \notin {"perf", "text"}
    THEN [ok |-> FALSE, log |-> <<"Unsupported profiler type">>]
    ELSE IF ~ReadAndSetTotalCount(file)
         THEN [ok |-> FALSE, log |-> <<"Error reading profile">>]
         ELSE [ok |-> TRUE, log |-> <<>>]

\* Profile::ComputeProfile(): every sample inside a known function is
\* attributed to that function; the others are dropped
ProfileComputeProfile(es, samples) ==
    es \cup { <<GetSymbolInfoByAddr(a), a>> :
                 a \in { x \in samples : GetSymbolInfoByAddr(x) # NotFound } }

Profilers == {"prefetch", "perf", "text", "other"}

ZeroIndices == [a \in Addresses |-> 0]

ProfIdle ==
    /\ profiler = "other" /\ input = Missing /\ cpc = "idle"
    /\ addr2line = "unset" /\ ignore_thresholds = FALSE /\ hintsRead = FALSE
    /\ hints = <<>> /\ hi = 0 /\ repeated_prefetches_indices = ZeroIndices
    /\ entries = {} /\ targets = {} /\ ensureCalls = <<>> /\ addCalls = <<>>
    /\ elided = FALSE /\ log = <<>> /\ written = FALSE /\ result = "none"

DFSIdle ==
    /\ edges = <<>> /\ entry = 1 /\ on_node = FALSE /\ on_edge = FALSE
    /\ visited_nodes = {} /\ callStack = <<>> /\ trace = <<>> /\ descents = 0
    /\ dpc = "idle"

Init ==
    /\ DFSIdle
    /\ profiler \in Profilers
    /\ input \in IF profiler = "prefetch"
                 THEN {Missing} \cup HintFiles \cup LongFiles \cup ExtremeFiles
                 ELSE {Missing, Corrupt} \cup SampleFiles
    /\ cpc = "start"
    /\ addr2line = "unset" /\ ignore_thresholds = FALSE /\ hintsRead = FALSE
    /\ hints = <<>> /\ hi = 0 /\ repeated_prefetches_indices = ZeroIndices
    /\ entries = {} /\ targets = {} /\ ensureCalls = <<>> /\ addCalls = <<>>
    /\ elided = FALSE /\ log = <<>> /\ written = FALSE /\ result = "none"

\* lines 109-116: CreateProfile up to the branch on the profiler
CreateProfileStart ==
    /\ cpc = "start"
    /\ IF profiler = "prefetch"
       THEN ignore_thresholds' = TRUE /\ cpc' = "convert"
       ELSE ignore_thresholds' = ignore_thresholds /\ cpc' = "read_sample"
    /\ UNCHANGED <<profiler, input, addr2line, hintsRead, hints, hi,
                   repeated_prefetches_indices, entries, targets, ensureCalls,
                   addCalls, elided, log, written, result>>
    /\ UNCHANGED dfsVars

\* lines 207-210: ConvertPrefetchHints up to its loop; line 114 when it fails
ConvertBegin ==
    /\ cpc = "convert"
    /\ \E created \in BOOLEAN :
         LET chk == CheckAndAssignAddr2Line(created)
             rd == ReadPrefetchHints(input)
         IN IF ~chk.ok
            THEN /\ log' = log \o chk.log
                 /\ addr2line' = chk.addr2line
                 /\ result' = "false" /\ cpc' = "done"
                 /\ UNCHANGED <<hintsRead, hints, hi, repeated_prefetches_indices>>
            ELSE /\ log' = log \o chk.log \o rd.log
                 /\ addr2line' = chk.addr2line
                 /\ hintsRead' = TRUE
                 /\ hints' = rd.hints
                 /\ hi' = 1
                 /\ repeated_prefetches_indices' = ZeroIndices
                 /\ cpc' = "loop"
                 /\ UNCHANGED result
    /\ UNCHANGED <<profiler, input, ignore_thresholds, entries, targets,
                   ensureCalls, addCalls, elided, written>>
    /\ UNCHANGED dfsVars

\* lines 211-239: one iteration of the loop over the hints
ConvertHint ==
    /\ cpc = "loop" /\ hi <= Len(hints)
    /\ LET hint == hints[hi]
           pc == hint.address
           name == GetSymbolInfoByAddr(pc)
           prefetch_index == repeated_prefetches_indices[pc]
           stack == GetInlineStack(pc)
           ens == EnsureEntryInFuncForSymbol(entries, name, pc)
           target == TargetName(hint.type, prefetch_index)
           count == StaticCastU64(hint.delta)
           add == AddIndirectCallTarget(targets, name, stack, target, count)
       IN /\ repeated_prefetches_indices' =
                NextIndices(repeated_prefetches_indices, pc, name # NotFound)
          /\ IF name = NotFound
             THEN /\ log' = Append(log, "Instruction address not found")
                  /\ UNCHANGED <<entries, targets, ensureCalls, addCalls>>
             ELSE /\ ensureCalls' = Append(ensureCalls,
                                           [hint |-> hi, name |-> name, pc |-> pc])
                  /\ entries' = ens.entries
                  /\ IF ~ens.ok
                     THEN UNCHANGED <<targets, addCalls, log>>
                     ELSE /\ addCalls' = Append(addCalls,
                                 [hint |-> hi, name |-> name, stack |-> stack,
                                  target |-> target, count |-> count])
                          /\ targets' = add.targets
                          /\ log' = IF add.ok THEN log
                                    ELSE Append(log, "Ignoring address")
    /\ hi' = hi + 1
    /\ UNCHANGED <<profiler, input, cpc, addr2line, ignore_thresholds, hintsRead,
                   hints, elided, written, result>>
    /\ UNCHANGED dfsVars

\* lines 240-241: after the loop
ConvertEnd ==
    /\ cpc = "loop" /\ hi > Len(hints)
    /\ LET m == ElideSuffixesAndMerge(entries, targets)
       IN entries' = m.entries /\ targets' = m.targets
    /\ elided' = TRUE
    /\ cpc' = "write"
    /\ UNCHANGED <<profiler, input, addr2line, ignore_thresholds, hintsRead, hints,
                   hi, repeated_prefetches_indices, ensureCalls, addCalls, log,
                   written, result>>
    /\ UNCHANGED dfsVars

\* line 116
ReadSampleStep ==
    /\ cpc = "read_sample"
    /\ LET rs == ReadSample(input, profiler)
       IN /\ log' = log \o rs.log
          /\ IF rs.ok THEN cpc' = "compute" /\ UNCHANGED result
                      ELSE cpc' = "done" /\ result' = "false"
    /\ UNCHANGED <<profiler, input, addr2line, ignore_thresholds, hintsRead, hints,
                   hi, repeated_prefetches_indices, entries, targets, ensureCalls,
                   addCalls, elided, written>>
    /\ UNCHANGED dfsVars

\* lines 117, 187-199: ComputeProfile
ComputeProfileStep ==
    /\ cpc = "compute"
    /\ \E created \in BOOLEAN :
         LET chk == CheckAndAssignAddr2Line(created)
         IN /\ log' = log \o chk.log
            /\ addr2line' = chk.addr2line
            /\ IF ~chk.ok
               THEN cpc' = "done" /\ result' = "false" /\ UNCHANGED entries
               ELSE /\ entries' = ProfileComputeProfile(entries, input.samples)
                    /\ cpc' = "write"
                    /\ UNCHANGED result
    /\ UNCHANGED <<profiler, input, ignore_thresholds, hintsRead, hints, hi,
                   repeated_prefetches_indices, targets, ensureCalls, addCalls,
                   elided, written>>
    /\ UNCHANGED dfsVars

\* lines 120-140: the symbol list, when asked for, and writer->WriteToFile
WriteStep ==
    /\ cpc = "write"
    /\ \E store_sym_list_in_profile, sample_profile_writer, wrote \in BOOLEAN :
         IF store_sym_list_in_profile /\ ~sample_profile_writer
         THEN result' = "false" /\ UNCHANGED written
         ELSE written' = TRUE /\ result' = IF wrote THEN "true" ELSE "false"
    /\ cpc' = "done"
    /\ UNCHANGED <<profiler, input, addr2line, ignore_thresholds, hintsRead, hints,
                   hi, repeated_prefetches_indices, entries, targets, ensureCalls,
                   addCalls, elided, log>>
    /\ UNCHANGED dfsVars

Next ==
    \/ CreateProfileStart \/ ConvertBegin \/ ConvertHint \/ ConvertEnd
    \/ ReadSampleStep \/ ComputeProfileStep \/ WriteStep

InitDFS ==
    /\ ProfIdle
    /\ edges \in { es \in EdgeLists : GroupedBySrc(es) }
    /\ entry \in Nodes
    /\ on_node \in BOOLEAN
    /\ on_edge \in BOOLEAN
    /\ visited_nodes = {}
    /\ callStack = <<>>
    /\ trace = <<>>
    /\ descents = 0
    /\ dpc = "main"

NextDFS == MainPass \/ DFSSkip \/ DFSVisit \/ DFSEdge \/ DFSReturn \/ MainDone

vars == <<dfsVars, profVars>>

Spec == Init /\ [][Next]_vars

SpecDFS == InitDFS /\ [][NextDFS]_vars

\* The program is sequential: a step that can be taken is taken.
FairSpecDFS == InitDFS /\ [][NextDFS]_vars /\ WF_vars(NextDFS)

(***************************************************************************)
(*                 Properties of the CFG traversal                         *)
(***************************************************************************)

\* The nodes reachable from n through intra-procedural out-edges, as a least
\* fixed point, independently of the traversal.
RECURSIVE Closure(_)
Closure(S) ==
    LET T == S \cup { edges[i][2] : i \in { j \in 1..Len(edges) : edges[j][1] \in S } }
    IN IF T = S THEN S ELSE Closure(T)

Reachable(n) == Closure({n})

NodePos(n) == { p \in 1..Len(trace) : trace[p] = <<"node", n>> }
EdgePos(e) == { p \in 1..Len(trace) : trace[p] = <<"edge", e>> }
EdgeIds == 1..Len(edges)

\* C1: in one pass (visited_nodes cleared, DFS from the entry node) the node
\* callback is never invoked twice for a node, and when the pass is over it
\* has been invoked exactly once for every node reachable from the entry and
\* for no other node; the visited set is then exactly the reachable set.
C1_EachReachableNodeOnce ==
    /\ \A n \in Nodes : Cardinality(NodePos(n)) <= 1
    /\ dpc = "done" =>
         /\ visited_nodes = Reachable(entry)
         /\ on_node =>
              \A n \in Nodes :
                 Cardinality(NodePos(n)) = IF n \in Reachable(entry) THEN 1 ELSE 0

\* A finished pass with the node callback over a diamond: every node is
\* reachable and one of them is entered by edges from two different nodes.
C1_Witness ==
    /\ dpc = "done" /\ on_node
    /\ Reachable(entry) = Nodes
    /\ Len(trace) >= MaxNodes
    /\ \E e1, e2 \in EdgeIds : Src(e1) # Src(e2) /\ Sink(e1) = Sink(e2)

\* C2: the traversal terminates on every finite graph: main eventually gets
\* DFS's return, the number of descents (activations that get past the
\* visited check) never exceeds the number of nodes, and the recursion never
\* gets deeper than one activation per node plus one.
C2_Terminates ==
    /\ <>(dpc = "done")
    /\ [](descents <= Cardinality(Nodes))
    /\ [](Len(callStack) <= MaxDepth)
    /\ [](callStack # <<>> /\ Top.it >= 1 => Len(callStack) < MaxDepth)

\* A finished pass over a graph with a cycle through the entry that contains
\* every node.
C2_Witness ==
    /\ dpc = "done"
    /\ descents = Cardinality(Nodes)
    /\ \E e \in EdgeIds : Sink(e) = entry /\ Src(e) # entry
    /\ Len(edges) = MaxEdges

\* What C3 has in common in its original and its amended form: with an edge
\* callback, no edge is reported twice, an edge is reported only after its
\* source was visited, and when the pass is over every out-edge of every
\* visited node has been reported exactly once (also those whose sink was
\* already visited) and no other edge; no node gets a second node callback;
\* with both callbacks a node's callback precedes those of its out-edges.
C3_EdgesOnce ==
    /\ \A e \in EdgeIds : Cardinality(EdgePos(e)) <= 1
    /\ \A n \in Nodes : Cardinality(NodePos(n)) <= 1
    /\ on_edge =>
         \A e \in EdgeIds :
            /\ EdgePos(e) # {} => Src(e) \in visited_nodes
            /\ dpc = "done" =>
                 Cardinality(EdgePos(e)) = IF Src(e) \in visited_nodes THEN 1 ELSE 0
    /\ on_node /\ on_edge =>
         \A e \in EdgeIds : \A p \in EdgePos(e) :
            \E q \in NodePos(Src(e)) : q < p

\* C3 (as amended): C3_EdgesOnce, and callbacks fire in discovery order: the
\* first callback is the entry's node callback, and every other node callback
\* comes right after the callback of an edge into that node (the edge that
\* discovered it); an edge into an already visited node is reported after
\* that node's callback and is followed by no node callback for its sink.
C3_DiscoveryOrder ==
    /\ C3_EdgesOnce
    /\ on_node /\ on_edge =>
         \A q \in 1..Len(trace) :
            trace[q][1] = "node" =>
               \/ q = 1 /\ trace[q][2] = entry
               \/ /\ q > 1
                  /\ trace[q - 1][1] = "edge"
                  /\ Sink(trace[q - 1][2]) = trace[q][2]

\* A finished pass with both callbacks in which all edges were reported and
\* one of them entered a node that had been visited before.
C3_Witness ==
    /\ dpc = "done" /\ on_node /\ on_edge
    /\ Len(edges) = MaxEdges
    /\ \A e \in EdgeIds : EdgePos(e) # {}
    /\ \E e \in EdgeIds : \E p \in EdgePos(e) : \E q \in NodePos(Sink(e)) : q < p
    /\ \E e \in EdgeIds : \E p \in EdgePos(e) : \E q \in NodePos(Sink(e)) : q = p + 1

\* C3 (as stated): C3_EdgesOnce, and every edge's callback comes before the
\* first visit of its sink.
C3_EdgeBeforeSinkVisit ==
    /\ C3_EdgesOnce
    /\ on_node /\ on_edge =>
         \A e \in EdgeIds : \A p \in EdgePos(e) : \A q \in NodePos(Sink(e)) : p < q

(***************************************************************************)
(*                 Properties of profile creation                          *)
(***************************************************************************)

InLog(msg) == \E i \in 1..Len(log) : log[i] = msg

\* The input is a hint file that could be opened and has a line that does
\* not parse into the three fields.
HasMalformedLine ==
    /\ profiler = "prefetch" /\ input.state = "ok"
    /\ \E i \in 1..Len(input.lines) : Fscanf(input.lines, i) # 3

\* C4: once a hint file with a malformed line has been read, the conversion
\* fails: it never gets to the writer, CreateProfile returns false, and no
\* indirect call target is recorded for that input, not even for the lines
\* before the malformed one.
C4_MalformedLineFailsConversion ==
    HasMalformedLine /\ hintsRead =>
        /\ addCalls = <<>> /\ targets = {}
        /\ cpc # "write" /\ ~written
        /\ cpc = "done" => result = "false"

\* C5: when the input file cannot be opened, whatever the profiler,
\* WriteToFile is never called and CreateProfile returns false.
C5_MissingInputIsFatal ==
    input.state = "missing" =>
        /\ cpc # "write" /\ ~written
        /\ cpc = "done" => result = "false"

\* The number a string of decimal digits denotes.
RECURSIVE DecValue(_)
DecValue(ds) ==
    IF ds = <<>> THEN 0
    ELSE 10 * DecValue(SubSeq(ds, 1, Len(ds) - 1))
         + (CHOOSE d \in 0..9 : Digit(d) = ds[Len(ds)])

\* The number of hints before the k-th at the k-th hint's address.
EarlierAtSameAddress(k) ==
    Cardinality({ j \in 1..(k - 1) : hints[j].address = hints[k].address })

\* C6: the index in the synthetic target name of a hint is the number of
\* earlier hints at the same address (0 for the first, then 1, 2, ...), for
\* any number of hints, so that two hints at one address never get the same
\* index.
C6_IndexIsPerAddressCounter ==
    /\ \A k \in 1..Len(addCalls) :
          LET c == addCalls[k] IN
          /\ SubSeq(c.target, 1, 3) = <<"__prefetch_", hints[c.hint].type, "_">>
          /\ DecValue(SubSeq(c.target, 4, Len(c.target))) = EarlierAtSameAddress(c.hint)
    /\ \A k1, k2 \in 1..Len(addCalls) :
          (k1 # k2 /\ addCalls[k1].name = addCalls[k2].name
                   /\ addCalls[k1].stack = addCalls[k2].stack)
          => SubSeq(addCalls[k1].target, 4, Len(addCalls[k1].target))
               # SubSeq(addCalls[k2].target, 4, Len(addCalls[k2].target))

\* C7: EnsureEntryInFuncForSymbol and AddIndirectCallTarget are called only
\* for hints whose inline stack is not empty, and a hint with an empty inline
\* stack leaves no entry in the symbol map.
C7_EmptyStackHintSkipped ==
    /\ \A k \in 1..Len(ensureCalls) : GetInlineStack(ensureCalls[k].pc) # <<>>
    /\ \A k \in 1..Len(addCalls) : addCalls[k].stack # <<>>
    /\ \A e \in entries : GetInlineStack(e[2]) # <<>>

\* The loop of ConvertPrefetchHints is at a hint whose address is in no
\* known function.
AtUnresolvedHint ==
    /\ cpc = "loop" /\ hi <= Len(hints)
    /\ GetSymbolInfoByAddr(hints[hi].address) = NotFound

\* C8: the step for a hint whose address is in no known function calls
\* neither EnsureEntryInFuncForSymbol nor AddIndirectCallTarget, leaves the
\* symbol map and the per-address index counters as they are and goes on to
\* the next hint without failing the conversion; when the loop is over every
\* hint read was processed, those after an unresolved one too (each hint
\* with a known address has its call of EnsureEntryInFuncForSymbol).
C8_UnresolvedHintDropped ==
    /\ [][AtUnresolvedHint =>
            /\ UNCHANGED <<entries, targets, repeated_prefetches_indices,
                           ensureCalls, addCalls, result>>
            /\ cpc' = "loop" /\ hi' = hi + 1
            /\ log' = Append(log, "Instruction address not found")]_vars
    /\ [](hintsRead /\ cpc \in {"write", "done"} =>
            /\ hi = Len(hints) + 1
            /\ \A k \in 1..Len(hints) :
                  GetSymbolInfoByAddr(hints[k].address) # NotFound
                  => \E j \in 1..Len(ensureCalls) : ensureCalls[j].hint = k)

\* A finished, successful conversion of a file in which a hint with an
\* unknown address comes after a hint at a known one and before a hint that
\* was recorded with index 1.
C8_Witness ==
    /\ cpc = "done" /\ result = "true" /\ hintsRead
    /\ \E i, j, k \in 1..Len(hints) :
          /\ i < j /\ j < k
          /\ GetSymbolInfoByAddr(hints[j].address) = NotFound
          /\ hints[i].address = hints[k].address
          /\ \E c \in 1..Len(addCalls) :
                /\ addCalls[c].hint = k /\ addCalls[c].stack # <<>>
                /\ DecValue(SubSeq(addCalls[c].target, 4, Len(addCalls[c].target))) = 1

\* C9: the count passed to AddIndirectCallTarget for a hint is the hint's
\* delta modulo 2^64: the delta itself when it is not negative, and for a
\* negative delta d the number c with c + |d| = 2^64.
C9_CountIsDeltaMod2to64 ==
    \A k \in 1..Len(addCalls) :
       LET c == addCalls[k]
           d == hints[c.hint].delta
       IN IF d.neg
          THEN AddU64(c.count, d.mag) = [val |-> U64(0), carry |-> 1]
          ELSE c.count = d.mag

\* A written profile for which the most negative delta was recorded.
C9_Witness ==
    /\ cpc = "done" /\ written
    /\ \E k \in 1..Len(addCalls) :
          /\ hints[addCalls[k].hint].delta = MinInt64
          /\ addCalls[k].stack # <<>>
          /\ \E t \in targets : t.count = addCalls[k].count

\* C10: once the construction of the Addr2line object has failed, on either
\* path, CreateProfile has returned false, and no hint was read, nothing was
\* added to the symbol map, ElideSuffixesAndMerge did not run and WriteToFile
\* was not called.
C10_ResolverFailureAborts ==
    InLog("Error reading binary") =>
        /\ addr2line = "unset"
        /\ ~hintsRead /\ hints = <<>>
        /\ entries = {} /\ targets = {}
        /\ ensureCalls = <<>> /\ addCalls = <<>>
        /\ ~elided /\ ~written
        /\ cpc = "done" /\ result = "false"

\* CreateProfile has returned after the Addr2line object could not be
\* constructed for a hint file with three well-formed hints at known
\* addresses.
C10_Witness ==
    /\ InLog("Error reading binary") /\ cpc = "done"
    /\ profiler = "prefetch" /\ input.state = "ok"
    /\ Len(input.lines) = MaxLines
    /\ \A i \in 1..Len(input.lines) :
          /\ Fscanf(input.lines, i) = 3
          /\ GetSymbolInfoByAddr(input.lines[i][1].val) # NotFound

=============================================================================
